---- MODULE Spec2Model ----
(***************************************************************************)
(* Model of the scene composition generator of the CLEAR AQA dataset      *)
(* generator: src/scene_generation/scene_generator.py.                     *)
(*                                                                         *)
(* Sound ids are 0..nb_sounds-1 as in the code; the catalog `definition`   *)
(* is a sequence, so the sound with id i is definition[i+1].  Nodes of the *)
(* generation tree live in the sequence `nodes` (creation order); a node   *)
(* is referred to by its position, the root is node 1 and the position 0   *)
(* stands for Python's None.                                               *)
(***************************************************************************)
EXTENDS Integers, Sequences, FiniteSets, TLC

\* ------------------------------------------------------------------------
\* Bounds of the model
\* ------------------------------------------------------------------------
MaxNbSounds == 3
MaxNbFamilies == 2
MaxSceneLength == 3
MaxTreeWidth == 2
MaxSearchSize == 18
MaxConstraint == 2
MaxNbToGenerate == 2

\* ------------------------------------------------------------------------
\* State
\* ------------------------------------------------------------------------
VARIABLES
    definition,             \* Primary_sounds.definition: family of each sound
    nb_objects_per_scene,   \* Scene_generator.nb_objects_per_scene
    nb_tree_branch,         \* Scene_generator.nb_tree_branch
    constraints,            \* Scene_generator.constraints
    nb_to_generate,         \* parameter of _generate_scenes_idx
    nodes,                  \* the Node objects created so far
    next_node,              \* local next_node (current_node at loop head)
    state,                  \* local state
    generated_scenes,       \* local generated_scenes
    start_index,            \* parameter start_index, incremented per scene
    continue_work,          \* local continue_work
    gen_index,              \* Primary_sounds.gen_index
    generated_count_by_index,       \* Primary_sounds diagnostic counter
    generated_count_by_families,    \* Primary_sounds diagnostic counter
    stats,                  \* Scene_generator.stats
    pc,                     \* position in _generate_scenes_idx / next_id
    call_state,             \* argument `state` of a direct call of a validator
    call_values,            \* order of families_count.values() in that call
    call_result,            \* what the call returned ("none" before a call)
    call_name,              \* the method called directly ("none" before a call)
    call_level,             \* argument `current_level` of validate_intermediate
    call_index,             \* argument `index` of a direct call of get
    call_sound,             \* what get returned, or the error it raised
    training_set_ratio,     \* parameter training_set_ratio of generate
    shuffle_scenes,         \* parameter shuffle_scenes of generate
    scenes_sounds_idx,      \* local scenes_sounds_idx of generate
    nb_training,            \* local nb_training of generate
    nb_valid,               \* local nb_valid of generate
    nb_test,                \* local nb_test of generate
    scenes,                 \* what generate returned
    output_filename_prefix, \* args.output_filename_prefix
    scenes_filenames,       \* the scene files written by the main program
    nb_process,             \* args.nb_process of produce_scenes_audio.py
    nbOfLoadedScenes,       \* AudioSceneProducer.nbOfLoadedScenes
    randomSeed,             \* AudioSceneProducer.randomSeed
    withBackgroundNoise,    \* AudioSceneProducer.withBackgroundNoise
    withReverb,             \* AudioSceneProducer.withReverb
    nb_generated,           \* local nb_generated of mainPool
    idList,                 \* what the iterator idList of mainPool has left
    id_queue,               \* the ids in the Queue id_queue
    done,                   \* local done of mainPool
    main_pc,                \* position of the main process in mainPool
    joined,                 \* number of workers whose join has returned
    worker_pc,              \* position of each worker in produceSceneProcess
    emptyQueueCount,        \* local emptyQueueCount of each worker
    rng,                    \* the generator of the module random in each worker
    produced,               \* the scenes each worker produced, with their draws
    elementary_sounds,      \* Elementary_Sounds.definition, in the order visited
    brightness_per_instrument,  \* local of _preprocess_sounds
    preprocess_id,          \* number of sounds the first loop has visited
    preprocess_pc           \* position in _preprocess_sounds

config_vars == <<definition, nb_objects_per_scene, nb_tree_branch, constraints,
                 nb_to_generate>>
search_vars == <<nodes, next_node, state, generated_scenes, start_index,
                 continue_work, gen_index, generated_count_by_index,
                 generated_count_by_families, stats, pc>>
call_vars == <<call_state, call_values, call_result, call_name, call_level,
               call_index, call_sound>>
generate_vars == <<training_set_ratio, shuffle_scenes, scenes_sounds_idx, nb_training,
                   nb_valid, nb_test, scenes, output_filename_prefix, scenes_filenames>>
dispatch_vars == <<nb_process, nbOfLoadedScenes, randomSeed, withBackgroundNoise,
                   withReverb, nb_generated, idList, id_queue, done, main_pc, joined,
                   worker_pc, emptyQueueCount, rng, produced>>
preprocess_vars == <<elementary_sounds, brightness_per_instrument, preprocess_id,
                     preprocess_pc>>
vars == <<config_vars, search_vars, call_vars, generate_vars, dispatch_vars,
          preprocess_vars>>

\* ------------------------------------------------------------------------
\* Python values
\* ------------------------------------------------------------------------
None == 0                       \* a node reference that is None
NoLimit == <<>>                 \* nb_to_generate=None
Limit(k) == <<k>>               \* nb_to_generate=k
\* variant of Truthy where the number 0 is true
Truthy_of_zero(x) == x # NoLimit

\* truth value of `nb_to_generate` in `if nb_to_generate and ...`
Truthy(x) == x # NoLimit /\ x[1] # 0

Pop(s) == SubSeq(s, 1, Len(s) - 1)
Range(s) == {s[i] : i \in 1..Len(s)}

\* the orders in which the elements of a set can come
Orders(S) == {q \in [1..Cardinality(S) -> S] : Range(q) = S}

\* a float that is the quotient num/den, den > 0
Ratio(num, den) == [num |-> num, den |-> den]

\* ------------------------------------------------------------------------
\* Node
\* ------------------------------------------------------------------------
Node(parent, level, sound_id) ==
    [childs |-> <<>>, level |-> level, sound_id |-> sound_id, parent |-> parent]

get_childs_ids(n) == [i \in 1..Len(nodes[n].childs) |-> nodes[nodes[n].childs[i]].sound_id]

\* variant of add_child that creates the node without appending it to the
\* children of n
add_child_unlinked(n, sound_id) ==
    Append(nodes, Node(n, nodes[n].level + 1, sound_id))

\* nodes after `n.add_child(sound_id)`; the new child is node Len(nodes)+1
add_child(n, sound_id) ==
    LET new_child == Len(nodes) + 1
    IN  Append([nodes EXCEPT ![n].childs = Append(@, new_child)],
               Node(n, nodes[n].level + 1, sound_id))

\* ------------------------------------------------------------------------
\* Primary_sounds
\* ------------------------------------------------------------------------
nb_sounds == Len(definition)
families == Range(definition)
nb_families == Cardinality(families)
instrument_family(id) == definition[id + 1]

\* variant of families_count that leaves out the last id of id_list
families_count_without_last(id_list) ==
    [f \in families |->
        Cardinality({i \in 1..(Len(id_list) - 1) : instrument_family(id_list[i]) = f})]

\* ids_to_families_count: the tally of every catalog family in id_list
\* (families absent from id_list get 0) ...
families_count(id_list) ==
    [f \in families |->
        Cardinality({i \in 1..Len(id_list) : instrument_family(id_list[i]) = f})]

\* variant of non_empty_families_count that counts the sounds, not the families
non_empty_families_count_of_sounds(id_list) == Cardinality(Range(id_list))

\* ... and the number of families that occur in id_list
non_empty_families_count(id_list) ==
    Cardinality({instrument_family(id_list[i]) : i \in 1..Len(id_list)})

\* variants of state_and_siblings that forget one of the two lists
state_and_siblings_without_state(st, siblings) == Range(siblings)
state_and_siblings_without_siblings(st, siblings) == Range(st)

state_and_siblings(st, siblings) == Range(st) \cup Range(siblings)

\* dict.values() of the count returned by ids_to_families_count: the families
\* that occur in id_list in order of first occurrence, then the empty families
RECURSIVE non_empty_families(_)
non_empty_families(id_list) ==
    IF id_list = <<>> THEN <<>>
    ELSE LET before == non_empty_families(Pop(id_list))
             family == instrument_family(id_list[Len(id_list)])
         IN  IF family \in Range(before) THEN before ELSE Append(before, family)

RECURSIVE SortedSeq(_)
SortedSeq(S) ==
    IF S = {} THEN <<>>
    ELSE LET m == CHOOSE x \in S : \A y \in S : x <= y
         IN  <<m>> \o SortedSeq(S \ {m})

families_count_keys(id_list) ==
    LET non_empty == non_empty_families(id_list)
    IN  non_empty \o SortedSeq(families \ Range(non_empty))

families_count_values(id_list) ==
    LET keys == families_count_keys(id_list)
        count == families_count(id_list)
    IN  [i \in 1..Len(keys) |-> count[keys[i]]]

\* ------------------------------------------------------------------------
\* Scene_generator: validation
\* ------------------------------------------------------------------------
\* variant of min_nb_families that asks for no more families than there are
min_nb_families_feasible ==
    IF constraints.min_nb_families > nb_families
    THEN nb_families ELSE constraints.min_nb_families

min_nb_families == constraints.min_nb_families
min_objects_per_family == constraints.min_objects_per_family
min_nb_families_subject_to_min_objects_per_family ==
    constraints.min_nb_families_subject_to_min_objects_per_family

\* variant of the counting loop that requires more than min_objects_per_family
RECURSIVE nb_families_meet_requirements_strict(_, _, _)
nb_families_meet_requirements_strict(values, i, nb) ==
    IF i > Len(values) THEN nb
    ELSE LET nb2 == IF values[i] > min_objects_per_family THEN nb + 1 ELSE nb
         IN  IF nb2 >= min_nb_families_subject_to_min_objects_per_family
             THEN nb2
             ELSE nb_families_meet_requirements_strict(values, i + 1, nb2)

\* the counting loop of validate_final, with its early break: the value of
\* nb_families_meet_requirements when the loop is left
RECURSIVE nb_families_meet_requirements(_, _, _)
nb_families_meet_requirements(values, i, nb) ==
    IF i > Len(values) THEN nb
    ELSE LET nb2 == IF values[i] >= min_objects_per_family THEN nb + 1 ELSE nb
         IN  IF nb2 >= min_nb_families_subject_to_min_objects_per_family
             THEN nb2
             ELSE nb_families_meet_requirements(values, i + 1, nb2)

\* validate_final on the values of the count dictionary in the given order
validate_final_values(nb_non_empty, values) ==
    IF nb_non_empty < min_nb_families THEN FALSE
    ELSE IF nb_families_meet_requirements(values, 1, 0)
                < min_nb_families_subject_to_min_objects_per_family
         THEN FALSE
         ELSE TRUE

\* (the dictionary is built once, by the call of ids_to_families_count)
validate_final(st) ==
    \E values \in {families_count_values(st)} :
        validate_final_values(non_empty_families_count(st), values)

\* variant of validate_intermediate_outcome without its first test
validate_intermediate_outcome_without_nb_family(st, current_level) ==
    LET nb_level_to_go == nb_objects_per_scene - current_level - 1
        count == families_count(st)
        nb_valid_families ==
            Cardinality({f \in families : count[f] >= min_objects_per_family})
        nb_missing_families ==
            min_nb_families_subject_to_min_objects_per_family - nb_valid_families
    IN  IF nb_missing_families > nb_level_to_go
        THEN "nbMissingFamilies"
        ELSE IF nb_missing_families * min_objects_per_family > nb_level_to_go
        THEN "nbMissingObjectPerFam"
        ELSE "valid"

\* variant of validate_intermediate_outcome without its last test
validate_intermediate_outcome_two_tests(st, current_level) ==
    LET nb_level_to_go == nb_objects_per_scene - current_level - 1
        count == families_count(st)
        current_nb_families == non_empty_families_count(st)
        missing_nb_families == min_nb_families - current_nb_families
        nb_valid_families ==
            Cardinality({f \in families : count[f] >= min_objects_per_family})
        nb_missing_families ==
            min_nb_families_subject_to_min_objects_per_family - nb_valid_families
    IN  IF current_nb_families < min_nb_families /\ missing_nb_families > nb_level_to_go
        THEN "NB_FAMILY"
        ELSE IF nb_missing_families > nb_level_to_go
        THEN "nbMissingFamilies"
        ELSE "valid"

\* validate_intermediate: which return statement is reached
validate_intermediate_outcome(st, current_level) ==
    LET nb_level_to_go == nb_objects_per_scene - current_level - 1
        count == families_count(st)
        current_nb_families == non_empty_families_count(st)
        missing_nb_families == min_nb_families - current_nb_families
        nb_valid_families ==
            Cardinality({f \in families : count[f] >= min_objects_per_family})
        nb_missing_families ==
            min_nb_families_subject_to_min_objects_per_family - nb_valid_families
    IN  IF current_nb_families < min_nb_families /\ missing_nb_families > nb_level_to_go
        THEN "NB_FAMILY"
        ELSE IF nb_missing_families > nb_level_to_go
        THEN "nbMissingFamilies"
        ELSE IF nb_missing_families * min_objects_per_family > nb_level_to_go
        THEN "nbMissingObjectPerFam"
        ELSE "valid"

validate_intermediate(st, current_level) ==
    validate_intermediate_outcome(st, current_level) = "valid"

\* dict[key] += 1, creating the key with 1 when absent
DictIncr(d, key) ==
    IF key \in DOMAIN d THEN [d EXCEPT ![key] = @ + 1]
    ELSE [k \in DOMAIN d \cup {key} |-> IF k = key THEN 1 ELSE d[k]]

\* self.stats after validate_intermediate(st, current_level)
stats_after_validate_intermediate(st, current_level) ==
    LET outcome == validate_intermediate_outcome(st, current_level)
        levels == [stats EXCEPT !.levels = DictIncr(@, current_level)]
    IN  CASE outcome = "NB_FAMILY" -> levels
          [] outcome = "nbMissingFamilies" ->
                [levels EXCEPT !.nbMissingFamilies = @ + 1]
          [] outcome = "nbMissingObjectPerFam" ->
                [levels EXCEPT !.nbMissingObjectPerFam = @ + 1]
          [] OTHER -> stats

\* ------------------------------------------------------------------------
\* Initial states: a catalog, a configuration, and the locals of
\* _generate_scenes_idx before its loop
\* ------------------------------------------------------------------------
\* number of nodes below the root of a full tree of the given width and depth;
\* the initial states are those where this number times the number of sounds
\* of the catalog is at most MaxSearchSize
RECURSIVE FullTreeNodes(_, _)
FullTreeNodes(width, length) ==
    IF length = 0 THEN 0 ELSE width * (1 + FullTreeNodes(width, length - 1))

\* catalogs up to the names of the families: sound 0 is of family 1 and a
\* sound is of a family seen before or of the next new one
Catalogs ==
    {d \in UNION {[1..n -> 1..MaxNbFamilies] : n \in 1..MaxNbSounds} :
        /\ d[1] = 1
        /\ \A i \in 2..Len(d) : \E j \in 1..(i-1) : d[i] <= d[j] + 1}

Constraints ==
    [min_nb_families : 0..MaxConstraint,
     min_objects_per_family : 0..MaxConstraint,
     min_nb_families_subject_to_min_objects_per_family : 0..MaxConstraint]

\* produce_scenes_audio.py is not running
NoDispatch ==
    /\ nb_process = 0
    /\ nbOfLoadedScenes = 0
    /\ randomSeed = 0
    /\ withBackgroundNoise = FALSE
    /\ withReverb = FALSE
    /\ nb_generated = 0
    /\ idList = <<>>
    /\ id_queue = <<>>
    /\ done = FALSE
    /\ main_pc = "none"
    /\ joined = 0
    /\ worker_pc = <<>>
    /\ emptyQueueCount = <<>>
    /\ rng = <<>>
    /\ produced = <<>>

\* the locals of _generate_scenes_idx at the head of its loop, and the
\* variables that are written later
InitGeneratorLocals ==
    /\ nodes = <<Node(None, -1, -1)>>
    /\ next_node = 1
    /\ state = <<>>
    /\ generated_scenes = <<>>
    /\ start_index = 0
    /\ continue_work = TRUE
    /\ gen_index = 0
    /\ generated_count_by_index = [i \in 0..(Len(definition) - 1) |-> 0]
    /\ generated_count_by_families = [f \in Range(definition) |-> 0]
    /\ stats = [levels |-> <<>>, nbValid |-> 0, nbMissingFamilies |-> 0,
                nbMissingObjectPerFam |-> 0]
    /\ pc = "while"
    /\ call_state = <<>>
    /\ call_values = <<>>
    /\ call_result = "none"
    /\ call_name = "none"
    /\ call_level = 0
    /\ call_index = 0
    /\ call_sound = [error |-> "none"]
    /\ training_set_ratio = Ratio(7, 10)
    /\ shuffle_scenes = TRUE
    /\ scenes_sounds_idx = <<>>
    /\ nb_training = 0
    /\ nb_valid = 0
    /\ nb_test = 0
    /\ scenes = [train |-> <<>>, val |-> <<>>, test |-> <<>>]
    /\ output_filename_prefix = "AQA"
    /\ scenes_filenames = {}

\* _preprocess_sounds is not running
NoPreprocess ==
    /\ elementary_sounds = <<>>
    /\ brightness_per_instrument = <<>>
    /\ preprocess_id = 0
    /\ preprocess_pc = "none"

InitLocals ==
    /\ NoDispatch
    /\ NoPreprocess
    /\ InitGeneratorLocals

Init ==
    /\ definition \in Catalogs
    /\ nb_objects_per_scene \in 1..MaxSceneLength
    /\ nb_tree_branch \in 1..MaxTreeWidth
    /\ FullTreeNodes(nb_tree_branch, nb_objects_per_scene) * Len(definition) <= MaxSearchSize
    /\ constraints \in Constraints
    /\ nb_to_generate \in {NoLimit} \cup {Limit(k) : k \in 0..MaxNbToGenerate}
    /\ InitLocals

\* ------------------------------------------------------------------------
\* _generate_scenes_idx and next_id
\* ------------------------------------------------------------------------
current_node == next_node
siblings == get_childs_ids(current_node)

\* `current_node.level < self.nb_objects_per_scene - 1`: not at the bottom yet
not_reached_bottom(n) == nodes[n].level < nb_objects_per_scene - 1

\* variant of can_add_child that allows one child too few
can_add_child_one_less(n) == Len(nodes[n].childs) < nb_tree_branch - 1

\* variant of can_add_child that allows one child too many
can_add_child_inclusive(n) == Len(nodes[n].childs) <= nb_tree_branch

\* `len(current_node.childs) < self.nb_tree_branch`: a child can be added
can_add_child(n) == Len(nodes[n].childs) < nb_tree_branch

\* variant of list(state) that sorts the ids
list_sorted(st) == SortedSeq(Range(st))

\* variant of list(state) taken after the state was popped
list_after_pop(st) == Pop(st)

\* `list(state)`: the copy of the state that is recorded as a scene
list(st) == st

\* next_id, first draw: the loop body has taken the branch "add a new child"
\* and next_id draws gen_index
next_id_draw ==
    /\ pc = "while"
    /\ not_reached_bottom(current_node)
    /\ can_add_child(current_node)
    /\ \E r \in 0..(nb_sounds - 1) : gen_index' = r
    /\ pc' = "next_id"
    /\ UNCHANGED <<generate_vars, call_vars, config_vars, dispatch_vars, preprocess_vars, nodes, next_node, state, generated_scenes,
                   start_index, continue_work, generated_count_by_index,
                   generated_count_by_families, stats>>

\* next_id, one turn of `while self.gen_index in state_and_siblings`
next_id_redraw ==
    /\ pc = "next_id"
    /\ gen_index \in state_and_siblings(state, siblings)
    /\ \E r \in 0..(nb_sounds - 1) : gen_index' = r
    /\ UNCHANGED <<generate_vars, call_vars, config_vars, dispatch_vars, preprocess_vars, nodes, next_node, state, generated_scenes,
                   start_index, continue_work, generated_count_by_index,
                   generated_count_by_families, stats, pc>>

\* next_id returns gen_index; the child is added and validated
AddChild ==
    /\ pc = "next_id"
    /\ gen_index \notin state_and_siblings(state, siblings)
    /\ LET new_sound_id == gen_index
           new_state == Append(state, new_sound_id)
           new_child == Len(nodes) + 1
           new_level == nodes[current_node].level + 1
       IN  /\ generated_count_by_index' =
                [generated_count_by_index EXCEPT ![new_sound_id] = @ + 1]
           /\ generated_count_by_families' =
                [generated_count_by_families
                    EXCEPT ![instrument_family(new_sound_id)] = @ + 1]
           /\ nodes' = add_child(current_node, new_sound_id)
           /\ stats' = stats_after_validate_intermediate(new_state, new_level)
           /\ IF validate_intermediate(new_state, new_level)
              THEN /\ next_node' = new_child
                   /\ state' = new_state
              ELSE /\ next_node' = current_node
                   /\ state' = Pop(new_state)
    /\ pc' = "while"
    /\ UNCHANGED <<generate_vars, call_vars, config_vars, dispatch_vars, preprocess_vars, generated_scenes, start_index, continue_work,
                   gen_index>>

\* the node has all its children: go up one level
GoUp ==
    /\ pc = "while"
    /\ not_reached_bottom(current_node)
    /\ ~can_add_child(current_node)
    /\ next_node' = nodes[current_node].parent
    /\ IF nodes[current_node].parent = None
       THEN /\ continue_work' = FALSE
            /\ pc' = "done"
            /\ state' = state
       ELSE /\ continue_work' = continue_work
            /\ pc' = "while"
            /\ state' = IF Len(state) > 0 THEN Pop(state) ELSE state
    /\ UNCHANGED <<generate_vars, call_vars, config_vars, dispatch_vars, preprocess_vars, nodes, generated_scenes, start_index, gen_index,
                   generated_count_by_index, generated_count_by_families, stats>>

\* variant of GoingUp that leaves the state as it is
RECURSIVE GoingUp_keeping_state(_, _)
GoingUp_keeping_state(n, st) ==
    IF Len(nodes[n].childs) >= nb_tree_branch
    THEN IF nodes[n].parent = None
         THEN [next_node |-> None, state |-> st, continue_work |-> FALSE]
         ELSE GoingUp_keeping_state(nodes[n].parent, st)
    ELSE [next_node |-> n, state |-> st, continue_work |-> TRUE]

\* `while len(next_node.childs) >= self.nb_tree_branch` after a leaf: the
\* node, the state and continue_work when the loop is left
RECURSIVE GoingUp(_, _)
GoingUp(n, st) ==
    IF Len(nodes[n].childs) >= nb_tree_branch
    THEN IF nodes[n].parent = None
         THEN [next_node |-> None, state |-> st, continue_work |-> FALSE]
         ELSE GoingUp(nodes[n].parent, Pop(st))
    ELSE [next_node |-> n, state |-> st, continue_work |-> TRUE]

\* variant of LimitReached that stops one scene too late
LimitReached_late ==
    Truthy(nb_to_generate) /\ start_index > nb_to_generate[1]

\* the limit of scenes is reached at a valid leaf
LimitReached ==
    Truthy(nb_to_generate) /\ start_index >= nb_to_generate[1]

\* reached the bottom of the tree
Bottom ==
    /\ pc = "while"
    /\ ~not_reached_bottom(current_node)
    /\ IF validate_final(state) /\ LimitReached
       THEN /\ continue_work' = FALSE
            /\ pc' = "done"
            /\ UNCHANGED <<next_node, state, generated_scenes, start_index, stats>>
       ELSE /\ IF validate_final(state)
               THEN /\ stats' = [stats EXCEPT !.nbValid = @ + 1]
                    /\ start_index' = start_index + 1
                    /\ generated_scenes' = Append(generated_scenes, list(state))
               ELSE UNCHANGED <<stats, start_index, generated_scenes>>
            /\ IF Len(state) = 0
               THEN \* `state.pop()` raises IndexError: pop from empty list
                    /\ next_node' = nodes[current_node].parent
                    /\ pc' = "IndexError"
                    /\ UNCHANGED <<state, continue_work>>
               ELSE LET up == GoingUp(nodes[current_node].parent, Pop(state))
                    IN  /\ next_node' = up.next_node
                        /\ state' = up.state
                        /\ continue_work' = up.continue_work
                        /\ pc' = IF up.continue_work THEN "while" ELSE "done"
    /\ UNCHANGED <<generate_vars, call_vars, config_vars, dispatch_vars, preprocess_vars, nodes, gen_index, generated_count_by_index,
                   generated_count_by_families>>

\* ------------------------------------------------------------------------
\* generate, _generate_relationships and the main program
\* ------------------------------------------------------------------------
MaxRatioDen == 3

RECURSIVE GCD(_, _)
GCD(a, b) == IF b = 0 THEN a ELSE GCD(b, a % b)

\* the values of --training_set_ratio in [0, 1], in lowest terms
TrainingSetRatios ==
    {r \in [num : 0..MaxRatioDen, den : 1..MaxRatioDen] :
        r.num <= r.den /\ GCD(r.num, r.den) = 1}

\* values of --output_filename_prefix: the default and another one
FilenamePrefixes == {"AQA", "CLEAR"}

\* variant of round that truncates as int() does
round_down(num, den) == {num \div den}

\* round(num/den) of a float, den > 0: the nearest integer.  The float is
\* the rounded result of a float product, so a quotient that is exactly
\* halfway between two integers comes out on either side of the half or on
\* it (and then goes to the even neighbour): both neighbours are outcomes.
round(num, den) ==
    LET floor == num \div den
        rest == num % den
    IN  IF 2 * rest < den THEN {floor}
        ELSE IF 2 * rest > den THEN {floor + 1}
        ELSE {floor, floor + 1}

\* self.primary_sounds.get(index) is `self.definition[index]`: a Python list
\* counts a negative index from its end, and raises IndexError outside -N..N-1
IndexError == [error |-> "IndexError"]

get(index) ==
    IF index >= 0 /\ index < nb_sounds
    THEN [id |-> index, instrument_family |-> instrument_family(index)]
    ELSE IF index < 0 /\ index >= -nb_sounds
    THEN [id |-> nb_sounds + index,
          instrument_family |-> instrument_family(nb_sounds + index)]
    ELSE IndexError

\* variant of Remove that leaves the list as it is
Remove_nothing(s, x) == s

\* list.remove(x) on a list that holds x once
Remove(s, x) == SelectSeq(s, LAMBDA y : y # x)

\* the loop `for i in range(0, self.nb_objects_per_scene)` of
\* _generate_relationships from iteration i on; before[i - 1] of the code is
\* rel.before[i] here, sequences starting at 1
RECURSIVE relationships_loop(_, _)
relationships_loop(i, rel) ==
    IF i >= nb_objects_per_scene THEN rel
    ELSE LET before == IF i - 1 >= 0
                       THEN Append(rel.before, rel.before[i] \o <<i - 1>>)
                       ELSE rel.before
             scene_indexes == Remove(rel.scene_indexes, i)
         IN  relationships_loop(i + 1,
                [before |-> before,
                 after |-> Append(rel.after, scene_indexes),
                 scene_indexes |-> scene_indexes])

generate_relationships(scene_composition) ==
    LET rel == relationships_loop(0,
                  [before |-> << <<>> >>, after |-> <<>>,
                   scene_indexes |-> [k \in 1..nb_objects_per_scene |-> k - 1]])
    IN  [before |-> rel.before, after |-> rel.after]

\* the decimal digits of a natural number
RECURSIVE Digits(_)
Digits(n) == IF n < 10 THEN <<n>> ELSE Append(Digits(n \div 10), n % 10)

\* "%06d" % n: the digits, with zeros in front up to the width
RECURSIVE ZeroPadded(_, _)
ZeroPadded(digits, width) ==
    IF Len(digits) >= width THEN digits ELSE ZeroPadded(<<0>> \o digits, width)

\* "AQA_%s_%06d.png" % (split, index)
image_filename(split, index) ==
    [prefix |-> "AQA", split |-> split, index |-> ZeroPadded(Digits(index), 6),
     extension |-> "png"]

\* variant of in_training that takes one scene more
in_training_inclusive(scene_count, nb) == scene_count <= nb

\* `scene_count < nb_training`: the scene goes to the training set
in_training(scene_count, nb) == scene_count < nb

\* the scene built for sounds_idx, with its split, index and filename
scene_of(sounds_idx, split, index) ==
    [objects |-> [k \in 1..Len(sounds_idx) |-> get(sounds_idx[k])],
     relationships |-> generate_relationships(sounds_idx),
     split |-> split,
     image_index |-> index,
     image_filename |-> image_filename(split, index)]

\* the loop `for sounds_idx in scenes_sounds_idx` of generate from the k-th
\* scene on; loc holds the lists and the counters of the loop
RECURSIVE generate_loop(_, _, _, _, _)
generate_loop(k, idx, nb_train, nb_val, loc) ==
    IF k > Len(idx) THEN loc
    ELSE generate_loop(k + 1, idx, nb_train, nb_val,
            IF in_training(loc.scene_count, nb_train)
            THEN [loc EXCEPT
                    !.training_scenes =
                        Append(@, scene_of(idx[k], "train", loc.training_index)),
                    !.training_index = @ + 1,
                    !.scene_count = @ + 1]
            ELSE IF loc.scene_count < nb_train + nb_val
            THEN [loc EXCEPT
                    !.valid_scenes =
                        Append(@, scene_of(idx[k], "val", loc.valid_index)),
                    !.valid_index = @ + 1,
                    !.scene_count = @ + 1]
            ELSE [loc EXCEPT
                    !.test_scenes =
                        Append(@, scene_of(idx[k], "test", loc.test_index)),
                    !.test_index = @ + 1,
                    !.scene_count = @ + 1])

\* generate after _generate_scenes_idx has returned: the shuffle, the sizes
\* of the sets and the three lists of scenes
generate_with(ratios) ==
    /\ pc = "done"
    /\ \E ratio \in ratios, shuffle \in BOOLEAN :
       \E order \in IF shuffle THEN Orders(1..Len(generated_scenes))
                    ELSE {[k \in 1..Len(generated_scenes) |-> k]} :
          LET shuffled == [k \in 1..Len(generated_scenes) |-> generated_scenes[order[k]]]
              nb_scene == Len(shuffled)
          IN  \E nb_train \in round(nb_scene * ratio.num, ratio.den),
                 nb_val \in round(nb_scene * (ratio.den - ratio.num), 2 * ratio.den) :
                 LET loc == generate_loop(1, shuffled, nb_train, nb_val,
                               [training_scenes |-> <<>>, valid_scenes |-> <<>>,
                                test_scenes |-> <<>>, training_index |-> 0,
                                valid_index |-> 0, test_index |-> 0,
                                scene_count |-> 0])
                 IN  /\ training_set_ratio' = ratio
                     /\ shuffle_scenes' = shuffle
                     /\ scenes_sounds_idx' = shuffled
                     /\ nb_training' = nb_train
                     /\ nb_valid' = nb_val
                     /\ nb_test' = nb_scene - nb_train - nb_val
                     /\ scenes' = [train |-> loc.training_scenes,
                                   val |-> loc.valid_scenes,
                                   test |-> loc.test_scenes]
    /\ pc' = "returned"
    /\ UNCHANGED <<config_vars, dispatch_vars, preprocess_vars, call_vars, nodes, next_node, state, generated_scenes,
                   start_index, continue_work, gen_index, generated_count_by_index,
                   generated_count_by_families, stats, output_filename_prefix,
                   scenes_filenames>>

\* generate called with a training_set_ratio in [0, 1]
generate == generate_with(TrainingSetRatios)

\* the main program after generate: one file of scenes per set, named with
\* the prefix given on the command line
write_scenes ==
    /\ pc = "returned"
    /\ \E prefix \in FilenamePrefixes :
          /\ output_filename_prefix' = prefix
          /\ scenes_filenames' =
                {[prefix |-> prefix, set_type |-> set_type, suffix |-> "scenes.json"] :
                    set_type \in DOMAIN scenes}
    /\ pc' = "written"
    /\ UNCHANGED <<config_vars, dispatch_vars, preprocess_vars, call_vars, nodes, next_node, state, generated_scenes,
                   start_index, continue_work, gen_index, generated_count_by_index,
                   generated_count_by_families, stats, training_set_ratio,
                   shuffle_scenes, scenes_sounds_idx, nb_training, nb_valid, nb_test,
                   scenes>>

\* ------------------------------------------------------------------------
\* AudioSceneProducer (produce_scenes_audio.py)
\* ------------------------------------------------------------------------
\* the keys assembleAudioScene reads from a scene, and from each of its objects
scene_keys_read == {"silence_before", "objects"}
sound_keys_read == {"filename", "silence_after"}

\* assembleAudioScene(scene): a dictionary lookup of a key that is absent
\* raises KeyError; the lookups come in the order of the code
assembleAudioScene(scene) ==
    IF "silence_before" \notin DOMAIN scene THEN "KeyError"
    ELSE IF "objects" \notin DOMAIN scene THEN "KeyError"
    ELSE IF \E k \in DOMAIN scene.objects :
               ~(sound_keys_read \subseteq DOMAIN scene.objects[k])
         THEN "KeyError"
    ELSE "AudioSegment"

\* ------------------------------------------------------------------------
\* mainPool and produceSceneProcess (produce_scenes_audio.py): the main
\* process fills the queue of ids, nb_process workers empty it.  A step is
\* one statement that reads or writes the queue, or a sleep; the steps of
\* the processes interleave in any order.  The Queue is a FIFO whose put,
\* get, empty and full are atomic.
\* ------------------------------------------------------------------------
MaxNbProcess == 2
MaxNbScenes == 2
\* Queue(maxsize=1000) of the code, scaled down
MaxQueueSize == 2
\* default of the parameter emptyQueueTimeout of produceSceneProcess
emptyQueueTimeout == 5

\* values of --random_nb_generator_seed
Seeds == {1, 2}

workers == 1..nb_process

\* range(n) as the list an iterator over it yields
range(n) == [i \in 1..n |-> i - 1]

\* utils.misc.init_random_seed(seed): the generator of the module random is
\* reset to the state the seed gives; n counts the numbers drawn since
init_random_seed(seed) == [seed |-> seed, n |-> 0]

\* variant of init_random_seed that leaves the generator as it is
init_random_seed_nothing(generator, seed) == generator

\* the number a generator returns next, named by the seed and the position
next_random(generator) == [seed |-> generator.seed, n |-> generator.n]
advance(generator) == [generator EXCEPT !.n = @ + 1]
NotDrawn == [seed |-> 0, n |-> 0]

\* the generator of the worker when produceScene has called init_random_seed
seeded(generator, seed) == init_random_seed(seed)

\* produceScene(sceneId) by a worker with the given generator: the seed is
\* set, then assembleAudioScene draws the gain when there is background
\* noise, and the room scale and the delay when there is reverberation
produceScene(generator, sceneId) ==
    LET g0 == seeded(generator, randomSeed)
        g1 == IF withBackgroundNoise THEN advance(g0) ELSE g0
        g2 == IF withReverb THEN advance(g1) ELSE g1
        g3 == IF withReverb THEN advance(g2) ELSE g2
    IN  [scene |-> [sceneId |-> sceneId,
                    gain |-> IF withBackgroundNoise THEN next_random(g0) ELSE NotDrawn,
                    roomScale |-> IF withReverb THEN next_random(g1) ELSE NotDrawn,
                    delay |-> IF withReverb THEN next_random(g2) ELSE NotDrawn],
         generator |-> g3]

\* variant of queue_get that leaves the id in the queue
queue_peek(queue) == [item |-> Head(queue), queue |-> queue]

\* queue.get() on a queue that is not empty
queue_get(queue) == [item |-> Head(queue), queue |-> Tail(queue)]

full(queue) == Len(queue) >= MaxQueueSize
empty(queue) == Len(queue) = 0

\* scene_generator.py is not running
NoGenerator ==
    /\ definition = <<1>>
    /\ nb_objects_per_scene = 1
    /\ nb_tree_branch = 1
    /\ constraints = [min_nb_families |-> 0, min_objects_per_family |-> 0,
                      min_nb_families_subject_to_min_objects_per_family |-> 0]
    /\ nb_to_generate = NoLimit
    /\ InitGeneratorLocals

\* mainPool up to the start of the workers, for the given number of
\* processes and of scenes in the file
mainPool_start(nb_process_arg, nb_scenes) ==
    /\ nb_process = nb_process_arg
    /\ nbOfLoadedScenes = nb_scenes
    /\ randomSeed \in Seeds
    /\ withBackgroundNoise \in BOOLEAN
    /\ withReverb \in BOOLEAN
    /\ nb_generated = nbOfLoadedScenes
    /\ idList = range(nbOfLoadedScenes)
    /\ id_queue = <<>>
    /\ done = FALSE
    /\ main_pc = "while"
    /\ joined = 0
    /\ worker_pc = [w \in workers |-> "sleep"]
    /\ emptyQueueCount = [w \in workers |-> 0]
    /\ rng = [w \in workers |-> init_random_seed(randomSeed)]
    /\ produced = [w \in workers |-> <<>>]
    /\ NoPreprocess
    /\ NoGenerator

InitDispatch ==
    \E p \in 1..MaxNbProcess, n \in 0..MaxNbScenes : mainPool_start(p, n)

\* one worker, and one scene more than the queue holds
InitLongList == mainPool_start(1, MaxQueueSize + 1)

main_frame ==
    UNCHANGED <<config_vars, search_vars, call_vars, generate_vars, nb_process,
                nbOfLoadedScenes, randomSeed, withBackgroundNoise, withReverb,
                nb_generated, worker_pc, emptyQueueCount, rng, produced,
                preprocess_vars>>

\* `id_queue.put(next(idList))`
main_put ==
    /\ main_pc = "while"
    /\ ~done
    /\ ~full(id_queue)
    /\ idList # <<>>
    /\ id_queue' = Append(id_queue, Head(idList))
    /\ idList' = Tail(idList)
    /\ UNCHANGED <<done, main_pc, joined>>
    /\ main_frame

\* next(idList) raises StopIteration: the loop is left
main_done ==
    /\ main_pc = "while"
    /\ ~done
    /\ ~full(id_queue)
    /\ idList = <<>>
    /\ done' = TRUE
    /\ main_pc' = "join"
    /\ UNCHANGED <<idList, id_queue, joined>>
    /\ main_frame

\* the queue is full: time.sleep(30)
main_sleep ==
    /\ main_pc = "while"
    /\ ~done
    /\ full(id_queue)
    /\ main_pc' = "sleep"
    /\ UNCHANGED <<idList, id_queue, done, joined>>
    /\ main_frame

\* the sleep is over
main_wake ==
    /\ main_pc = "sleep"
    /\ main_pc' = "while"
    /\ UNCHANGED <<idList, id_queue, done, joined>>
    /\ main_frame

\* `p.join()` returns when the worker has returned; after the last one the
\* main process prints "Job Done !"
main_join ==
    /\ main_pc = "join"
    /\ IF joined < nb_process
       THEN /\ worker_pc[joined + 1] = "returned"
            /\ joined' = joined + 1
            /\ main_pc' = main_pc
       ELSE /\ main_pc' = "Job Done"
            /\ joined' = joined
    /\ UNCHANGED <<idList, id_queue, done>>
    /\ main_frame

main == main_put \/ main_done \/ main_sleep \/ main_wake \/ main_join

worker_frame ==
    UNCHANGED <<config_vars, search_vars, call_vars, generate_vars, nb_process,
                nbOfLoadedScenes, randomSeed, withBackgroundNoise, withReverb,
                nb_generated, idList, done, main_pc, joined, preprocess_vars>>

\* `time.sleep(1)` at the start of produceSceneProcess
worker_start(w) ==
    /\ worker_pc[w] = "sleep"
    /\ worker_pc' = [worker_pc EXCEPT ![w] = "while"]
    /\ emptyQueueCount' = [emptyQueueCount EXCEPT ![w] = 0]
    /\ UNCHANGED <<id_queue, rng, produced>>
    /\ worker_frame

\* `if not queue.empty()`: the count is reset, queue.get() comes next
worker_not_empty(w) ==
    /\ worker_pc[w] = "while"
    /\ emptyQueueCount[w] < emptyQueueTimeout
    /\ ~empty(id_queue)
    /\ emptyQueueCount' = [emptyQueueCount EXCEPT ![w] = 0]
    /\ worker_pc' = [worker_pc EXCEPT ![w] = "get"]
    /\ UNCHANGED <<id_queue, rng, produced>>
    /\ worker_frame

\* the queue is empty: one more empty poll, and a sleep of random.random()
worker_empty(w) ==
    /\ worker_pc[w] = "while"
    /\ emptyQueueCount[w] < emptyQueueTimeout
    /\ empty(id_queue)
    /\ emptyQueueCount' = [emptyQueueCount EXCEPT ![w] = @ + 1]
    /\ rng' = [rng EXCEPT ![w] = advance(@)]
    /\ UNCHANGED <<id_queue, worker_pc, produced>>
    /\ worker_frame

\* `idToProcess = queue.get()`, which blocks while the queue is empty, and
\* `self.produceScene(idToProcess)`
worker_get(w) ==
    /\ worker_pc[w] = "get"
    /\ ~empty(id_queue)
    /\ LET got == queue_get(id_queue)
           result == produceScene(rng[w], got.item)
       IN  /\ id_queue' = got.queue
           /\ rng' = [rng EXCEPT ![w] = result.generator]
           /\ produced' = [produced EXCEPT ![w] = Append(@, result.scene)]
    /\ worker_pc' = [worker_pc EXCEPT ![w] = "while"]
    /\ UNCHANGED emptyQueueCount
    /\ worker_frame

\* emptyQueueTimeout empty polls in a row: the worker returns
worker_return(w) ==
    /\ worker_pc[w] = "while"
    /\ emptyQueueCount[w] >= emptyQueueTimeout
    /\ worker_pc' = [worker_pc EXCEPT ![w] = "returned"]
    /\ UNCHANGED <<id_queue, emptyQueueCount, rng, produced>>
    /\ worker_frame

produceSceneProcess(w) ==
    \/ worker_start(w)
    \/ worker_not_empty(w)
    \/ worker_empty(w)
    \/ worker_get(w)
    \/ worker_return(w)

NextDispatch == main \/ \E w \in workers : produceSceneProcess(w)

\* every process that can take a step eventually takes one
SpecDispatch ==
    /\ InitDispatch
    /\ [][NextDispatch]_vars
    /\ WF_vars(main)
    /\ \A w \in 1..MaxNbProcess : WF_vars(w \in workers /\ produceSceneProcess(w))

SpecLongList ==
    /\ InitLongList
    /\ [][NextDispatch]_vars
    /\ WF_vars(main)
    /\ \A w \in 1..MaxNbProcess : WF_vars(w \in workers /\ produceSceneProcess(w))

\* ------------------------------------------------------------------------
\* Elementary_Sounds._preprocess_sounds (utils/elementary_sounds.py): the
\* first loop, which records the largest and the smallest brightness of
\* each instrument
\* ------------------------------------------------------------------------
MaxNbElementarySounds == 3
Instruments == {"flute", "cello"}
\* values of timbral_brightness, from the ends and the middle of 1..9998
Brightnesses == {1, 5000, 9998}

Elementary_sound == [instrument : Instruments, int_brightness : Brightnesses]

\* the lists of at most n sounds, in every order
Sounds_lists(n) == UNION {[1..k -> Elementary_sound] : k \in 0..n}

\* `defaultdict(lambda: {'max': 0, 'min': 9999})`: the entry of the key,
\* made when the key is read first
defaultdict_get(dict, key) ==
    IF key \in DOMAIN dict THEN dict[key] ELSE [max |-> 0, min |-> 9999]

\* the if / elif of the first loop on the entry of the instrument
brightness_update(entry, int_brightness) ==
    IF int_brightness > entry.max
    THEN [entry EXCEPT !.max = int_brightness]
    ELSE IF int_brightness < entry.min
         THEN [entry EXCEPT !.min = int_brightness]
         ELSE entry

\* the sounds are loaded and shuffled: any list in any order
InitPreprocess ==
    /\ elementary_sounds \in Sounds_lists(MaxNbElementarySounds)
    /\ brightness_per_instrument = <<>>
    /\ preprocess_id = 0
    /\ preprocess_pc = "first_loop"
    /\ NoDispatch
    /\ NoGenerator

preprocess_frame ==
    UNCHANGED <<config_vars, search_vars, call_vars, generate_vars, dispatch_vars,
                elementary_sounds>>

\* one iteration of `for id, elementary_sound in enumerate(self.definition)`
first_loop_iteration ==
    /\ preprocess_pc = "first_loop"
    /\ preprocess_id < Len(elementary_sounds)
    /\ LET elementary_sound == elementary_sounds[preprocess_id + 1]
           instrument == elementary_sound.instrument
           entry == defaultdict_get(brightness_per_instrument, instrument)
           updated == brightness_update(entry, elementary_sound.int_brightness)
       IN  brightness_per_instrument' =
               [k \in DOMAIN brightness_per_instrument \cup {instrument} |->
                   IF k = instrument THEN updated ELSE brightness_per_instrument[k]]
    /\ preprocess_id' = preprocess_id + 1
    /\ UNCHANGED preprocess_pc
    /\ preprocess_frame

\* the list is exhausted: the second loop starts
first_loop_end ==
    /\ preprocess_pc = "first_loop"
    /\ preprocess_id = Len(elementary_sounds)
    /\ preprocess_pc' = "second_loop"
    /\ UNCHANGED <<brightness_per_instrument, preprocess_id>>
    /\ preprocess_frame

NextPreprocess == first_loop_iteration \/ first_loop_end

SpecPreprocess == InitPreprocess /\ [][NextPreprocess]_vars

Next ==
    \/ next_id_draw
    \/ next_id_redraw
    \/ AddChild
    \/ GoUp
    \/ Bottom

Spec == Init /\ [][Next]_vars

\* the search under the scheduling of the code: the loop keeps running, and
\* a uniform draw that is repeated for ever returns every id that can be
\* drawn, so a redraw with an eligible id is eventually made when there is one
next_id_redraw_eligible ==
    next_id_redraw /\ gen_index' \notin state_and_siblings(state, siblings)

FairSpec == Init /\ [][Next]_vars /\ WF_vars(Next) /\ WF_vars(next_id_redraw_eligible)

\* the main program: the search, then the sets of generate, then the files.
\* The sets are made from the list of scenes alone, so the configurations
\* are those that constrain the number of families only, without a limit of
\* scenes or with the largest one.
NextMain ==
    \/ Next
    \/ generate
    \/ write_scenes

InitMain ==
    /\ Init
    /\ min_objects_per_family = 0
    /\ min_nb_families_subject_to_min_objects_per_family = 0
    /\ nb_to_generate \in {NoLimit, Limit(MaxNbToGenerate)}

SpecMain == InitMain /\ [][NextMain]_vars

\* the search with one branch per node and scenes of 3 sounds, on catalogs of
\* at least 3 sounds and without a limit of scenes, under the scheduling of
\* the code
InitScenarioB ==
    /\ Init
    /\ nb_tree_branch = 1
    /\ nb_objects_per_scene = 3
    /\ nb_sounds >= 3
    /\ nb_to_generate = NoLimit

SpecScenarioB ==
    InitScenarioB /\ [][Next]_vars /\ WF_vars(Next) /\ WF_vars(next_id_redraw_eligible)

\* the search on a tree of two branches per node and scenes of 3 sounds, on
\* a catalog of 4 sounds, without limit of scenes: the smallest configuration
\* where the search leaves a leaf over two full ancestors and goes on.  The
\* sounds are of two families, and the scenes are not constrained or need a
\* family with two sounds, so that some candidates are rejected.
InitDeep ==
    /\ definition = <<1, 1, 1, 2>>
    /\ nb_objects_per_scene = 3
    /\ nb_tree_branch = 2
    /\ constraints \in
          {[min_nb_families |-> 0, min_objects_per_family |-> 0,
            min_nb_families_subject_to_min_objects_per_family |-> 0],
           [min_nb_families |-> 0, min_objects_per_family |-> 2,
            min_nb_families_subject_to_min_objects_per_family |-> 1]}
    /\ nb_to_generate = NoLimit
    /\ InitLocals

SpecDeep == InitDeep /\ [][Next]_vars

\* the search without a limit of scenes on the catalogs of at least
\* scene_length + tree_width - 1 sounds, under the scheduling of the code;
\* the configurations are those that constrain the number of families only
InitEnoughSounds ==
    /\ Init
    /\ nb_sounds >= nb_objects_per_scene + nb_tree_branch - 1
    /\ min_objects_per_family = 0
    /\ min_nb_families_subject_to_min_objects_per_family = 0
    /\ nb_to_generate = NoLimit

SpecEnoughSounds ==
    InitEnoughSounds /\ [][Next]_vars /\ WF_vars(Next) /\ WF_vars(next_id_redraw_eligible)

\* the main program on any configuration: the constructor (lines 181-201)
\* and generate store the scene length, the tree width and the ratio as they
\* are given, also when they are zero, negative or outside [0, 1]
AnyRatios == TrainingSetRatios \cup {Ratio(-1, 2), Ratio(3, 2)}

generate_any_ratio == generate_with(AnyRatios)

NextAnyConfig ==
    \/ Next
    \/ generate_any_ratio
    \/ write_scenes

InitAnyConfig ==
    /\ definition \in Catalogs
    /\ nb_objects_per_scene \in -1..MaxSceneLength
    /\ nb_tree_branch \in -1..MaxTreeWidth
    /\ (nb_objects_per_scene >= 1 /\ nb_tree_branch >= 1) =>
          FullTreeNodes(nb_tree_branch, nb_objects_per_scene) * Len(definition)
             <= MaxSearchSize
    /\ constraints \in Constraints
    /\ min_objects_per_family = 0
    /\ min_nb_families_subject_to_min_objects_per_family = 0
    /\ nb_to_generate \in {NoLimit, Limit(MaxNbToGenerate)}
    /\ InitLocals

SpecAnyConfig == InitAnyConfig /\ [][NextAnyConfig]_vars

\* ------------------------------------------------------------------------
\* Direct calls of the validators and of get on arbitrary arguments
\* ------------------------------------------------------------------------
\* the states a validator is called with: up to scene_length ids of the
\* catalog, in any order and with repetitions
CallStates ==
    UNION {[1..n -> 0..(nb_sounds - 1)] : n \in 0..nb_objects_per_scene}

\* validate_final(st), the empty families coming in any order in the
\* dictionary returned by ids_to_families_count
validate_final_call ==
    /\ call_name = "none"
    /\ \E st \in CallStates :
       \E empty_families \in Orders(families \ Range(non_empty_families(st))) :
          LET keys == non_empty_families(st) \o empty_families
              count == families_count(st)
              values == [i \in 1..Len(keys) |-> count[keys[i]]]
          IN  /\ call_state' = st
              /\ call_values' = values
              /\ call_result' =
                    IF validate_final_values(non_empty_families_count(st), values)
                    THEN "True" ELSE "False"
    /\ call_name' = "validate_final"
    /\ UNCHANGED <<config_vars, dispatch_vars, preprocess_vars, search_vars, generate_vars, call_level, call_index,
                   call_sound>>

\* validate_intermediate(st, current_level) on a state and the level of its
\* last id, as the search calls it; the counters of self.stats are all it
\* writes
validate_intermediate_call ==
    /\ call_name = "none"
    /\ \E st \in CallStates \ {<<>>} :
       \E current_level \in {Len(st) - 1} :
          /\ call_state' = st
          /\ call_level' = current_level
          /\ call_result' =
                IF validate_intermediate(st, current_level) THEN "True" ELSE "False"
          /\ stats' = stats_after_validate_intermediate(st, current_level)
    /\ call_name' = "validate_intermediate"
    /\ UNCHANGED <<config_vars, dispatch_vars, preprocess_vars, generate_vars, call_values, call_index, call_sound,
                   nodes, next_node, state, generated_scenes, start_index,
                   continue_work, gen_index, generated_count_by_index,
                   generated_count_by_families, pc>>

\* the indexes get is called with: those of the catalog and some on each side
Indexes == (0 - MaxNbSounds - 1)..(MaxNbSounds + 1)

\* primary_sounds.get(index)
get_call ==
    /\ call_name = "none"
    /\ \E index \in Indexes :
          /\ call_index' = index
          /\ call_sound' = get(index)
    /\ call_name' = "get"
    /\ UNCHANGED <<config_vars, dispatch_vars, preprocess_vars, search_vars, generate_vars, call_state, call_values,
                   call_result, call_level>>

NextValidate == validate_final_call \/ validate_intermediate_call \/ get_call

\* the validators read the catalog, the constraints and the scene length only
InitValidate ==
    /\ Init
    /\ nb_tree_branch = 1
    /\ nb_to_generate = NoLimit

SpecValidate == InitValidate /\ [][NextValidate]_vars

\* ------------------------------------------------------------------------
\* Properties
\* ------------------------------------------------------------------------
\* the ids on the path from the root (excluded) to node n
RECURSIVE PathTo(_)
PathTo(n) ==
    IF nodes[n].parent = None THEN <<>>
    ELSE Append(PathTo(nodes[n].parent), nodes[n].sound_id)

\* node c was rejected by intermediate validation when it was created
Rejected(c) == ~validate_intermediate(PathTo(c), nodes[c].level)

\* the family histogram of a scene, from the scene and the catalog alone
SceneFamilies(sc) == {definition[sc[j] + 1] : j \in 1..Len(sc)}
SceneTally(sc, f) == Cardinality({j \in 1..Len(sc) : definition[sc[j] + 1] = f})
CatalogFamilies == {definition[i] : i \in 1..Len(definition)}

\* the acceptance rule of final validation, stated on the histogram
FinalAccepts(sc) ==
    /\ Cardinality(SceneFamilies(sc)) >= constraints.min_nb_families
    /\ Cardinality({f \in CatalogFamilies :
                        SceneTally(sc, f) >= constraints.min_objects_per_family})
            >= constraints.min_nb_families_subject_to_min_objects_per_family

\* C1: every scene returned by the search has exactly scene_length ids, each
\* in 0..N-1, and no id occurs twice in it
C1_ScenesWellFormed ==
    \A k \in 1..Len(generated_scenes) :
        LET sc == generated_scenes[k]
        IN  /\ Len(sc) = nb_objects_per_scene
            /\ \A i \in 1..Len(sc) : sc[i] \in 0..(Len(definition) - 1)
            /\ \A i, j \in 1..Len(sc) : i # j => sc[i] # sc[j]

C1_Witness ==
    /\ Len(generated_scenes) >= 2
    /\ nb_objects_per_scene >= 2
    /\ pc = "done"

\* C2 as claimed: every emitted scene has at least min_families families, and
\* at least min_families_meeting_quota of the families that occur in the
\* scene have a tally >= min_objects_per_family
C2_QuotaAmongOccurringFamilies ==
    \A k \in 1..Len(generated_scenes) :
        LET sc == generated_scenes[k]
        IN  /\ Cardinality(SceneFamilies(sc)) >= constraints.min_nb_families
            /\ Cardinality({f \in SceneFamilies(sc) :
                    SceneTally(sc, f) >= constraints.min_objects_per_family})
                 >= constraints.min_nb_families_subject_to_min_objects_per_family

\* C2 amended: every emitted scene has at least min_families families, and at
\* least min_families_meeting_quota of the families of the catalog have a
\* tally >= min_objects_per_family in it, a family absent from the scene
\* having the tally 0; when min_objects_per_family >= 1 all of these families
\* occur in the scene
C2_QuotaAmongCatalogFamilies ==
    \A k \in 1..Len(generated_scenes) :
        LET sc == generated_scenes[k]
            meeting(F) == Cardinality({f \in F :
                    SceneTally(sc, f) >= constraints.min_objects_per_family})
            quota == constraints.min_nb_families_subject_to_min_objects_per_family
        IN  /\ Cardinality(SceneFamilies(sc)) >= constraints.min_nb_families
            /\ meeting(CatalogFamilies) >= quota
            /\ constraints.min_objects_per_family >= 1
                    => meeting(SceneFamilies(sc)) >= quota

\* a scene was emitted under a quota of 0 objects per family that more
\* families have to meet than the scene has
C2_Witness ==
    \E k \in 1..Len(generated_scenes) :
        /\ constraints.min_nb_families >= 1
        /\ constraints.min_objects_per_family = 0
        /\ constraints.min_nb_families_subject_to_min_objects_per_family
                > Cardinality(SceneFamilies(generated_scenes[k]))

\* C3: a state is appended to generated_scenes only when the current node is
\* at depth scene_length-1 and final validation accepts exactly that state
C3_EmitOnlyValidLeaf ==
    [][generated_scenes' # generated_scenes =>
            /\ pc = "while"
            /\ nodes[next_node].level = nb_objects_per_scene - 1
            /\ validate_final(state)
            /\ FinalAccepts(state)
            /\ state = PathTo(next_node)
            /\ generated_scenes' = Append(generated_scenes, state)]_vars

C3_Witness ==
    /\ Len(generated_scenes) = 1
    /\ stats.nbValid = 1
    /\ \E n \in 1..Len(nodes) : Rejected(n)

\* C4: validate_final returns True iff the state has at least min_families
\* families and at least min_families_meeting_quota families of tally
\* >= min_objects_per_family, whatever the order of the counting loop and
\* whether or not its early break is taken
C4_ValidateFinalIff ==
    call_name = "validate_final" =>
        (call_result = "True" <=> FinalAccepts(call_state))

\* the loop broke at its first family and a later family is under the quota
C4_Witness ==
    /\ call_name = "validate_final"
    /\ call_result = "True"
    /\ Len(call_values) = 2
    /\ constraints.min_nb_families_subject_to_min_objects_per_family = 1
    /\ call_values[1] >= constraints.min_objects_per_family
    /\ call_values[2] < constraints.min_objects_per_family

\* C5: every node, the root included, has at most tree_width children,
\* rejected ones included, and no node is deeper than scene_length-1
C5_WidthAndDepth ==
    \A n \in 1..Len(nodes) :
        /\ Len(nodes[n].childs) <= nb_tree_branch
        /\ nodes[n].level <= nb_objects_per_scene - 1

C5_Witness ==
    \E n \in 1..Len(nodes) :
        /\ nb_tree_branch >= 2
        /\ Len(nodes[n].childs) = nb_tree_branch
        /\ Rejected(nodes[n].childs[1])
        /\ nodes[n].level = nb_objects_per_scene - 2

\* the node created by a step, if any, and the node it was created under
C6_NewChildId ==
    Len(nodes') > Len(nodes) =>
        LET id == nodes'[Len(nodes')].sound_id
        IN  /\ id \in 0..(Len(definition) - 1)
            /\ \A i \in 1..Len(state) : state[i] # id
            /\ \A i \in 1..Len(nodes[next_node].childs) :
                    nodes[nodes[next_node].childs[i]].sound_id # id
            /\ nodes'[Len(nodes')].parent = next_node

\* the children of every node carry pairwise distinct ids
C6_SiblingsDistinct ==
    \A n \in 1..Len(nodes) : \A i, j \in 1..Len(nodes[n].childs) :
        i # j => nodes[nodes[n].childs[i]].sound_id # nodes[nodes[n].childs[j]].sound_id

\* C6: the id next_id returns at a node is in 0..N-1, is not in the state and
\* is not the id of a child the node already has (rejected or not); so the
\* children of a node have pairwise distinct ids
C6_EligibleIds == [][C6_NewChildId]_vars /\ []C6_SiblingsDistinct

C6_Witness ==
    \E n \in 2..Len(nodes) :
        /\ Len(nodes[n].childs) >= 2
        /\ Rejected(nodes[n].childs[1])

\* C7: the search eventually halts (and next_id never runs for ever)
C7_Halts == <>(pc = "done")

\* every id of the catalog is in the state or among the children of the node
NoEligibleId ==
    \A id \in 0..(Len(definition) - 1) :
        id \in state_and_siblings(state, siblings)

\* C8: a request for a candidate at a node without eligible id is handled
\* like a failed intermediate validation: one slot of the node is consumed,
\* the state and the current node stay as they were, the search goes on
C8_ExhaustedLikeRejected ==
    [][(pc = "next_id" /\ NoEligibleId) =>
            /\ pc' = "while"
            /\ state' = state
            /\ next_node' = next_node
            /\ Len(nodes'[next_node].childs) = Len(nodes[next_node].childs) + 1]_vars

\* C9: with a cap >= 1 the number of scenes never exceeds the cap
C9_AtMostCap ==
    (nb_to_generate # NoLimit /\ nb_to_generate[1] >= 1)
        => Len(generated_scenes) <= nb_to_generate[1]

\* the search was stopped by the cap, with the cap-th scene recorded
C9_Witness ==
    /\ pc = "done"
    /\ next_node # None
    /\ nb_to_generate # NoLimit
    /\ Len(generated_scenes) = nb_to_generate[1]
    /\ Len(generated_scenes) = MaxNbToGenerate

\* a cap >= 1 is given and that many scenes are recorded
CapReached ==
    /\ nb_to_generate # NoLimit
    /\ nb_to_generate[1] >= 1
    /\ Len(generated_scenes) = nb_to_generate[1]

\* C10: once the number of scenes equals the cap, no candidate is drawn and
\* no node is created any more
C10_DoneAtCap ==
    [][CapReached => (pc' # "next_id" /\ nodes' = nodes)]_vars

\* generate has returned
Returned == pc \in {"returned", "written"}

\* n is an integer nearest to num/den, den > 0
Nearest(n, num, den) ==
    2 * (IF n * den >= num THEN n * den - num ELSE num - n * den) <= den

\* C12: for a ratio r in [0, 1] the sizes computed by generate are
\* nb_training = round(total*r), nb_valid = round(total*(1-r)/2) and
\* nb_test = total - nb_training - nb_valid >= 0, they add up to total, and
\* the three lists returned have these lengths
C12_SplitSizes ==
    Returned =>
        LET total == Len(generated_scenes)
            r == training_set_ratio
        IN  /\ Nearest(nb_training, total * r.num, r.den)
            /\ Nearest(nb_valid, total * (r.den - r.num), 2 * r.den)
            /\ nb_test = total - nb_training - nb_valid
            /\ nb_test >= 0
            /\ nb_training + nb_valid + nb_test = total
            /\ Len(scenes.train) = nb_training
            /\ Len(scenes.val) = nb_valid
            /\ Len(scenes.test) = nb_test

\* three scenes and the ratio 1/2: 1.5 is rounded up to 2 training scenes,
\* 0.75 to 1 validation scene, and nothing is left for the test set
C12_Witness ==
    /\ Returned
    /\ Len(generated_scenes) = 3
    /\ training_set_ratio = Ratio(1, 2)
    /\ nb_training = 2
    /\ nb_valid = 1
    /\ nb_test = 0
    /\ Len(scenes.train) = 2

\* the id-sequence of a scene returned by generate, and those of a list
SoundsIdx(scene) == [k \in 1..Len(scene.objects) |-> scene.objects[k].id]
SoundsIdxOf(scene_list) == [k \in 1..Len(scene_list) |-> SoundsIdx(scene_list[k])]

\* two lists hold the same elements the same number of times
Count(s, x) == Cardinality({k \in 1..Len(s) : s[k] = x})
SameMultiset(s, t) ==
    /\ Len(s) = Len(t)
    /\ \A x \in Range(s) \cup Range(t) : Count(s, x) = Count(t, x)

\* C13: the scenes of the three sets together are the scenes returned by the
\* search, each as often as the search returned it, with or without shuffle;
\* the training set is the first nb_training scenes of the (shuffled) list,
\* the validation set the next nb_valid, the test set the rest
C13_Partition ==
    Returned =>
        LET together == SoundsIdxOf(scenes.train) \o SoundsIdxOf(scenes.val)
                            \o SoundsIdxOf(scenes.test)
        IN  /\ SameMultiset(together, generated_scenes)
            /\ SameMultiset(scenes_sounds_idx, generated_scenes)
            /\ ~shuffle_scenes => scenes_sounds_idx = generated_scenes
            /\ together = scenes_sounds_idx
            /\ Len(scenes.train) = nb_training
            /\ Len(scenes.val) = nb_valid

\* four scenes were shuffled into another order and every set got some
C13_Witness ==
    /\ Returned
    /\ shuffle_scenes
    /\ Len(generated_scenes) = 4
    /\ scenes_sounds_idx # generated_scenes
    /\ scenes_sounds_idx[1] = generated_scenes[4]
    /\ Len(scenes.train) = 2
    /\ Len(scenes.val) = 1
    /\ Len(scenes.test) = 1

\* the number written by a sequence of decimal digits
RECURSIVE DigitsValue(_)
DigitsValue(d) == IF Len(d) = 0 THEN 0 ELSE 10 * DigitsValue(Pop(d)) + d[Len(d)]

\* C14: in each set the scenes carry the indices 0, 1, ..., k-1 in list
\* order, the split label of a scene is the set that holds it, and its
\* filename is made of the configured prefix, that label and that index
\* written with 6 digits
C14_IndicesAndFilenames ==
    pc = "written" =>
        \A split \in DOMAIN scenes : \A k \in 1..Len(scenes[split]) :
            LET scene == scenes[split][k]
            IN  /\ scene.image_index = k - 1
                /\ scene.split = split
                /\ scene.image_filename.prefix = output_filename_prefix
                /\ scene.image_filename.split = split
                /\ Len(scene.image_filename.index) = 6
                /\ DigitsValue(scene.image_filename.index) = k - 1

\* C15: for every scene of length L >= 1, before and after have length L,
\* before[i] holds exactly the positions j < i and after[i] exactly the
\* positions j > i; so j is in before[i] iff i is in after[j], and "before"
\* is a strict total order on the positions 0..L-1
C15_Relationships ==
    Returned =>
        \A split \in DOMAIN scenes : \A k \in 1..Len(scenes[split]) :
            LET L == Len(scenes[split][k].objects)
                before == scenes[split][k].relationships.before
                after == scenes[split][k].relationships.after
                IsBefore(j, i) == j \in Range(before[i + 1])
            IN  L >= 1 =>
                /\ Len(before) = L
                /\ Len(after) = L
                /\ \A i \in 0..(L - 1) :
                      /\ Range(before[i + 1]) = {j \in 0..(L - 1) : j < i}
                      /\ Len(before[i + 1]) = i
                      /\ Range(after[i + 1]) = {j \in 0..(L - 1) : j > i}
                      /\ Len(after[i + 1]) = L - 1 - i
                /\ \A i, j \in 0..(L - 1) :
                      /\ IsBefore(j, i) <=> i \in Range(after[j + 1])
                      /\ ~IsBefore(i, i)
                      /\ i # j => (IsBefore(i, j) \/ IsBefore(j, i))
                      /\ \A h \in 0..(L - 1) :
                            (IsBefore(h, j) /\ IsBefore(j, i)) => IsBefore(h, i)

\* a scene of the largest length with its relationships
C15_Witness ==
    /\ Returned
    /\ nb_objects_per_scene = MaxSceneLength
    /\ \E split \in DOMAIN scenes : \E k \in 1..Len(scenes[split]) :
          /\ Len(scenes[split][k].objects) = MaxSceneLength
          /\ scenes[split][k].relationships.before[MaxSceneLength]
                = [j \in 1..(MaxSceneLength - 1) |-> j - 1]
          /\ scenes[split][k].relationships.after[1]
                = [j \in 1..(MaxSceneLength - 1) |-> j]

\* C17: with tree_width = 1, scene_length = 3 and at least 3 sounds, for
\* every constraint set and all draws, the search creates at most 3 nodes,
\* no node gets a second child, at most one scene is emitted, and the
\* search terminates
C17_ScenarioB ==
    /\ [](/\ Len(nodes) - 1 <= 3
          /\ \A n \in 1..Len(nodes) : Len(nodes[n].childs) <= 1
          /\ Len(generated_scenes) <= 1)
    /\ <>(pc = "done")

\* the search has ended with the whole path created and its scene emitted
C17_Witness ==
    /\ pc = "done"
    /\ nb_tree_branch = 1
    /\ nb_objects_per_scene = 3
    /\ Len(nodes) - 1 = 3
    /\ Len(generated_scenes) = 1

\* the catalog has fewer families than min_nb_families asks for
Infeasible == constraints.min_nb_families > nb_families

\* C18: when min_nb_families is larger than the number of families of the
\* catalog, no scene is produced, whatever the scene length, the tree width
\* and the draws
C18_InfeasibleNoScene ==
    Infeasible => generated_scenes = <<>>

\* the search went through a whole tree of an infeasible configuration,
\* down to the leaves, and ended without a scene
C18_Witness ==
    /\ Infeasible
    /\ pc = "done"
    /\ next_node = None
    /\ \E n \in 1..Len(nodes) : nodes[n].level = nb_objects_per_scene - 1
    /\ stats.levels # <<>>
    /\ generated_scenes = <<>>

\* C19: when min_nb_families is larger than the number of families of the
\* catalog, the infeasibility is reported before any traversal step: no
\* candidate is drawn and no node is created
C19_InfeasibleBeforeTraversal ==
    Infeasible => (pc # "next_id" /\ Len(nodes) = 1)

\* the training ratio is one that generate was called with and lies in [0, 1]
RatioInRange ==
    training_set_ratio.num >= 0 /\ training_set_ratio.num <= training_set_ratio.den

\* C20: a configuration with scene_length <= 0, tree_width <= 0 or a
\* training ratio outside [0, 1] is rejected before any search step: no
\* candidate is drawn, no node is created, no list of scenes and no split
\* is returned
C20_ConfigurationRejected ==
    /\ (nb_objects_per_scene <= 0 \/ nb_tree_branch <= 0) =>
          /\ pc \notin {"next_id", "done", "returned", "written"}
          /\ Len(nodes) = 1
    /\ Returned => RatioInRange

\* C22: every scene of the structure returned by generate holds each field
\* the audio renderer reads from a scene and from its objects, so that
\* assembling the scene raises no KeyError
C22_RendererFieldsWritten ==
    Returned =>
        \A set_type \in DOMAIN scenes :
           \A k \in 1..Len(scenes[set_type]) :
              /\ scene_keys_read \subseteq DOMAIN scenes[set_type][k]
              /\ assembleAudioScene(scenes[set_type][k]) # "KeyError"

\* C23: get(id) fails with an out-of-range error for every id outside
\* 0..N-1, negative ids included, and returns the sound stored at position
\* id otherwise
C23_GetOutOfRange ==
    call_name = "get" =>
        IF call_index \in 0..(nb_sounds - 1)
        THEN call_sound = [id |-> call_index,
                           instrument_family |-> definition[call_index + 1]]
        ELSE call_sound = IndexError

\* C24: at the start of every iteration of the search loop, state is the
\* sequence of the sound ids on the path from the root (excluded) to the
\* current node, so len(state) = depth of the current node + 1
C24_StateIsPath ==
    pc = "while" =>
        /\ state = PathTo(current_node)
        /\ Len(state) = nodes[current_node].level + 1

\* the loop is at its head after the search left a leaf over its full parent
\* and its full grandparent, and a candidate was rejected earlier
C24_Witness ==
    /\ pc = "while"
    /\ Len(nodes) > 3
    /\ LET leaf == Len(nodes)
           node == nodes[leaf].parent
       IN  /\ nodes[leaf].level = nb_objects_per_scene - 1
           /\ Len(nodes[node].childs) = nb_tree_branch
           /\ nodes[node].parent # None
           /\ Len(nodes[nodes[node].parent].childs) = nb_tree_branch
           /\ nodes[nodes[node].parent].parent = current_node
           /\ current_node # None
    /\ \E n \in 2..Len(nodes) : Rejected(n)
    /\ state = PathTo(current_node)

\* a step that creates a node appends it to the children of the current
\* node; when intermediate validation rejects the new state, the state and
\* the current node are after the step what they were before it
C25_CandidateStep ==
    Len(nodes') > Len(nodes) =>
        LET new_child == Len(nodes')
            new_sound_id == nodes'[new_child].sound_id
        IN  /\ nodes'[next_node].childs = Append(nodes[next_node].childs, new_child)
            /\ Len(nodes'[next_node].childs) <= nb_tree_branch
            /\ ~validate_intermediate(Append(state, new_sound_id),
                                      nodes[next_node].level + 1) =>
                    /\ state' = state
                    /\ next_node' = next_node
                    /\ pc' = "while"

\* no later child of a node carries the id of a rejected child of that node
C25_RejectedNotDrawnAgain ==
    \A n \in 1..Len(nodes) : \A i, j \in 1..Len(nodes[n].childs) :
        (i < j /\ Rejected(nodes[n].childs[i])) =>
            nodes[nodes[n].childs[j]].sound_id # nodes[nodes[n].childs[i]].sound_id

\* C25: every candidate drawn at a node consumes one of the tree_width slots
\* of that node whether or not intermediate validation accepts it; when it
\* is rejected the id is popped from state, the current node stays the same,
\* and the rejected id is never drawn again at that node
C25_CandidateConsumesSlot ==
    [][C25_CandidateStep]_vars /\ []C25_RejectedNotDrawnAgain

\* the first candidate of a node was rejected and the search is now at the
\* second candidate of that node, which was accepted
C25_Witness ==
    /\ pc = "while"
    /\ nodes[next_node].parent # None
    /\ LET n == nodes[next_node].parent
       IN  /\ Len(nodes[n].childs) = 2
           /\ nodes[n].childs[2] = next_node
           /\ Rejected(nodes[n].childs[1])
           /\ ~Rejected(next_node)
           /\ state = Append(PathTo(n), nodes[next_node].sound_id)

\* the states of scene_length ids that extend st by distinct ids of the
\* catalog that are not in st
Completions(st) ==
    {sc \in [1..nb_objects_per_scene -> 0..(nb_sounds - 1)] :
        /\ Len(st) <= nb_objects_per_scene
        /\ \A i \in 1..Len(st) : sc[i] = st[i]
        /\ \A i, j \in 1..nb_objects_per_scene :
              (i # j /\ j > Len(st)) => sc[i] # sc[j]}

\* C26: intermediate validation never discards a feasible branch: when it
\* rejected a state at depth d, no way of appending scene_length - d - 1
\* further distinct ids to that state gives a state that validate_final
\* accepts
C26_NoFeasibleBranchDiscarded ==
    \A n \in 2..Len(nodes) :
        Rejected(n) => \A sc \in Completions(PathTo(n)) : ~validate_final(sc)

\* the three quantities of the rejection rule, from the state, the depth and
\* the catalog alone
Remaining(depth) == nb_objects_per_scene - depth - 1
Distinct(st) == Cardinality(SceneFamilies(st))
Ok(st) ==
    Cardinality({f \in CatalogFamilies :
                    SceneTally(st, f) >= constraints.min_objects_per_family})
MissingQuota(st) ==
    constraints.min_nb_families_subject_to_min_objects_per_family - Ok(st)

\* C27: validate_intermediate rejects if and only if
\* min_families - distinct > remaining, or
\* min_families_meeting_quota - ok > remaining, or
\* (min_families_meeting_quota - ok) * min_objects_per_family > remaining
C27_RejectsIff ==
    call_name = "validate_intermediate" =>
        (call_result = "False" <=>
            \/ constraints.min_nb_families - Distinct(call_state) > Remaining(call_level)
            \/ MissingQuota(call_state) > Remaining(call_level)
            \/ MissingQuota(call_state) * constraints.min_objects_per_family
                    > Remaining(call_level))

\* a call that is rejected by the third test alone
C27_Witness ==
    /\ call_name = "validate_intermediate"
    /\ call_result = "False"
    /\ constraints.min_nb_families - Distinct(call_state) <= Remaining(call_level)
    /\ MissingQuota(call_state) <= Remaining(call_level)
    /\ MissingQuota(call_state) * constraints.min_objects_per_family
            > Remaining(call_level)
    /\ stats.nbMissingObjectPerFam = 1

\* a step that calls a validator leaves the state, the tree and the catalog
\* as they are
C28_ValidatorFrame ==
    (call_name = "none" /\ call_name' \in {"validate_final", "validate_intermediate"}) =>
        /\ state' = state
        /\ nodes' = nodes
        /\ next_node' = next_node
        /\ definition' = definition
        /\ constraints' = constraints

\* the states got from st by exchanging two neighbouring ids, or by putting
\* another sound of the same family in the place of one id.  Two states
\* have the same multiset of families exactly when a chain of such changes
\* leads from one to the other.
SameFamiliesNeighbours(st) ==
    {[st EXCEPT ![i] = st[i + 1], ![i + 1] = st[i]] : i \in 1..(Len(st) - 1)}
    \cup {[st EXCEPT ![i] = id] :
            <<i, id>> \in {<<i, id>> \in (1..Len(st)) \X (0..(nb_sounds - 1)) :
                              definition[id + 1] = definition[st[i] + 1]}}

\* what the validator of the call returns on the states with the same
\* multiset of families that are next to the state of the call is what the
\* call returned
C28_ResultOfFamilies ==
    /\ call_name = "validate_final" =>
          \A st \in SameFamiliesNeighbours(call_state) :
             validate_final(st) <=> call_result = "True"
    /\ call_name = "validate_intermediate" =>
          \A st \in SameFamiliesNeighbours(call_state) :
             validate_intermediate(st, call_level) <=> call_result = "True"

\* C28: the validators are pure with respect to the search: neither of them
\* changes state, the tree or the catalog, and their result depends only on
\* the multiset of the families of the ids in state, the depth and the
\* constraints
C28_ValidatorsPure ==
    [][C28_ValidatorFrame]_vars /\ []C28_ResultOfFamilies

\* validate_intermediate rejected a state of two sounds of two families,
\* which can come in two orders, and counted the rejection
C28_Witness ==
    /\ call_name = "validate_intermediate"
    /\ call_result = "False"
    /\ Len(call_state) = 2
    /\ definition[call_state[1] + 1] # definition[call_state[2] + 1]
    /\ stats.nbMissingFamilies = 1
    /\ state = <<>>
    /\ Len(nodes) = 1

\* the search ended because the tree is exhausted, not because of the limit
\* of scenes
Exhausted == pc = "done" /\ next_node = None

\* an internal node that passed intermediate validation
AcceptedInternal(n) ==
    /\ nodes[n].level < nb_objects_per_scene - 1
    /\ (n # 1 => ~Rejected(n))

C29_ExhaustedTree ==
    Exhausted =>
        /\ state = <<>>
        /\ Len(nodes[1].childs) = nb_tree_branch
        /\ \A n \in 1..Len(nodes) :
              AcceptedInternal(n) => Len(nodes[n].childs) = nb_tree_branch

\* a step that takes the search from an internal node to a node that is not
\* one of its children leaves a node with tree_width children
C29_LeaveFullNode ==
    (/\ pc = "while"
     /\ next_node' # next_node
     /\ not_reached_bottom(next_node)
     /\ (next_node' = None \/ nodes'[next_node'].parent # next_node)) =>
        Len(nodes[next_node].childs) = nb_tree_branch

\* C29: when the search ends by exhaustion, state is empty, the root has
\* exactly tree_width children and every node of depth < scene_length-1
\* that passed intermediate validation has exactly tree_width children: an
\* accepted internal node is never left while one of its slots is unused
C29_ExhaustionLeavesFullTree ==
    []C29_ExhaustedTree /\ [][C29_LeaveFullNode]_vars

\* the search of a tree of two levels and two branches ended by exhaustion
\* after a rejection and a scene
C29_Witness ==
    /\ Exhausted
    /\ nb_tree_branch = 2
    /\ nb_objects_per_scene = 2
    /\ generated_scenes # <<>>
    /\ \E n \in 2..Len(nodes) : Rejected(n)
    /\ \E n \in 2..Len(nodes) :
          AcceptedInternal(n) /\ Len(nodes[n].childs) = 2

\* C30: the scenes returned by one search are pairwise distinct as ordered
\* sequences of ids: no sequence is emitted twice in a run
C30_ScenesPairwiseDistinct ==
    \A i, j \in 1..Len(generated_scenes) :
        i # j => generated_scenes[i] # generated_scenes[j]

\* two scenes of the run hold the same ids in a different order
C30_Witness ==
    \E i, j \in 1..Len(generated_scenes) :
        /\ i < j
        /\ Len(generated_scenes[i]) >= 2
        /\ Range(generated_scenes[i]) = Range(generated_scenes[j])
        /\ generated_scenes[i] # generated_scenes[j]

\* the search is at the head of its loop on a leaf
AtLeaf == pc = "while" /\ ~not_reached_bottom(current_node)

\* a leaf the search has reached passes final validation
C31_LeafIsValid == AtLeaf => validate_final(state)

\* the step taken at a leaf appends the state to the scenes, unless the
\* limit of scenes stops the search there
C31_LeafEmitted ==
    AtLeaf =>
        \/ generated_scenes' = Append(generated_scenes, state)
        \/ /\ pc' = "done"
           /\ nb_to_generate # NoLimit
           /\ generated_scenes' = generated_scenes

\* C31: a candidate that passes intermediate validation at depth
\* scene_length-1 always passes final validation, so every leaf the search
\* reaches yields an emitted scene unless the cap stops the search
C31_ReachedLeafEmitted ==
    []C31_LeafIsValid /\ [][C31_LeafEmitted]_vars

\* a scene was emitted under constraints on the families after another
\* candidate for a leaf was rejected
C31_Witness ==
    /\ generated_scenes # <<>>
    /\ constraints.min_nb_families >= 1
    /\ constraints.min_objects_per_family >= 1
    /\ constraints.min_nb_families_subject_to_min_objects_per_family >= 1
    /\ \E n \in 2..Len(nodes) :
          nodes[n].level = nb_objects_per_scene - 1 /\ Rejected(n)
    /\ \E n \in 2..Len(nodes) :
          /\ nodes[n].level = nb_objects_per_scene - 1
          /\ PathTo(n) = generated_scenes[Len(generated_scenes)]

\* width to the power length
RECURSIVE Power(_, _)
Power(width, length) == IF length = 0 THEN 1 ELSE width * Power(width, length - 1)

\* the catalog has at least scene_length + tree_width - 1 sounds
EnoughSounds == nb_sounds >= nb_objects_per_scene + nb_tree_branch - 1

\* with enough sounds every call of next_id has an eligible id, and the
\* nodes below the root and the scenes stay within the size of the full tree
C32_Bounded ==
    EnoughSounds =>
        /\ pc = "next_id" => ~NoEligibleId
        /\ Len(nodes) - 1 <= FullTreeNodes(nb_tree_branch, nb_objects_per_scene)
        /\ Len(generated_scenes) <= Power(nb_tree_branch, nb_objects_per_scene)

\* C32: if the catalog has N >= scene_length + tree_width - 1 sounds, every
\* call of next_id has at least one eligible id, and the search terminates
\* after creating at most tree_width + ... + tree_width^scene_length nodes
\* and emitting at most tree_width^scene_length scenes
C32_EnoughSoundsTerminates ==
    []C32_Bounded /\ (EnoughSounds => <>(pc = "done"))

\* the search of the full tree of two levels and two branches on a catalog
\* of exactly scene_length + tree_width - 1 sounds has ended
C32_Witness ==
    /\ pc = "done"
    /\ nb_tree_branch = 2
    /\ nb_objects_per_scene = 2
    /\ nb_sounds = nb_objects_per_scene + nb_tree_branch - 1
    /\ Len(nodes) - 1 = FullTreeNodes(nb_tree_branch, nb_objects_per_scene)
    /\ Len(generated_scenes) = Power(nb_tree_branch, nb_objects_per_scene)

\* no limit of scenes was given, or the limit 0
NoCap == nb_to_generate \in {NoLimit, Limit(0)}

\* the leaves of the tree that passed intermediate validation, in the order
\* of their creation
RECURSIVE AcceptedLeaves(_)
AcceptedLeaves(n) ==
    IF n <= 1 THEN <<>>
    ELSE IF nodes[n].level = nb_objects_per_scene - 1 /\ ~Rejected(n)
    THEN Append(AcceptedLeaves(n - 1), PathTo(n))
    ELSE AcceptedLeaves(n - 1)

\* without a cap the step taken at a leaf appends the state to the scenes
C33_NoCapStep ==
    (NoCap /\ AtLeaf) => generated_scenes' = Append(generated_scenes, state)

\* without a cap the search ends at the root with all its slots used, and
\* the scenes are the leaves that were validated
C33_NoCapEnd ==
    (NoCap /\ pc = "done") =>
        /\ next_node = None
        /\ Len(nodes[1].childs) = nb_tree_branch
        /\ generated_scenes = AcceptedLeaves(Len(nodes))

RECURSIVE Concat(_, _)
\* the lists f[1], ..., f[n] one after the other
Concat(f, n) == IF n = 0 THEN <<>> ELSE Concat(f, n - 1) \o f[n]

\* the ids of the scenes the workers have produced
produced_ids ==
    LET all == Concat(produced, nb_process)
    IN  [i \in 1..Len(all) |-> all[i].sceneId]

\* the ids still to put, those in the queue and those produced
all_ids == idList \o id_queue \o produced_ids

\* C34: every scene id is, at any time, at one place only: still in the id
\* list, in the queue, or produced by one worker, once.  So no id is put
\* twice, none is taken by two workers and no scene is produced twice.
C34_EachIdOnce ==
    /\ \A i, j \in 1..Len(all_ids) : i # j => all_ids[i] # all_ids[j]
    /\ \A i \in 1..Len(all_ids) : all_ids[i] \in 0..(nbOfLoadedScenes - 1)

\* two workers have both produced scenes and every id has been produced
C34_Witness ==
    /\ nb_process >= 2
    /\ nbOfLoadedScenes >= 2
    /\ Len(produced_ids) = nbOfLoadedScenes
    /\ \A w \in workers : Len(produced[w]) >= 1

\* at "Job Done" every id of the list has been produced, and nb_generated
\* is the number of the scenes produced
AllProducedAtJobDone ==
    main_pc = "Job Done" =>
        /\ Len(produced_ids) = nb_generated
        /\ \A id \in 0..(nbOfLoadedScenes - 1) :
               \E i \in 1..Len(produced_ids) : produced_ids[i] = id

\* a worker that has returned has left nothing to do: no id is still to be
\* put on the queue or waiting in it
NoWorkerGivesUpEarly ==
    \A w \in workers :
        worker_pc[w] = "returned" => idList = <<>> /\ id_queue = <<>>

\* C35: when the run reports "Job Done" every scene id of the id list has
\* been taken and produced, the count nb_generated is the number of scenes
\* produced, and no worker has given up while ids were still to be enqueued.
C35_AllProducedBeforeJobDone ==
    /\ AllProducedAtJobDone
    /\ NoWorkerGivesUpEarly

\* C36: every worker eventually returns from produceSceneProcess, and so
\* the join of the main process on each worker returns; none stays blocked
\* in queue.get().
C36_WorkersReturn ==
    <>(\A w \in workers : worker_pc[w] = "returned")

\* C37: the fill loop of the main process eventually puts the last id on
\* the queue and is left; the main process does not stay for ever in the
\* branch that sleeps because the queue is full.
C37_FillLoopEnds ==
    <>(idList = <<>> /\ done)

\* the k-th number of the generator that the seed of the run gives
nth_random(k) == [seed |-> randomSeed, n |-> k]

\* what a scene draws when it is the first thing done after seeding
drawn_after_seeding ==
    [gain |-> IF withBackgroundNoise THEN nth_random(0) ELSE NotDrawn,
     roomScale |-> IF withReverb
                   THEN nth_random(IF withBackgroundNoise THEN 1 ELSE 0)
                   ELSE NotDrawn,
     delay |-> IF withReverb
               THEN nth_random(IF withBackgroundNoise THEN 2 ELSE 1)
               ELSE NotDrawn]

brightness_of(instrument) ==
    {elementary_sounds[i].int_brightness :
        i \in {j \in 1..Len(elementary_sounds) :
                  elementary_sounds[j].instrument = instrument}}

largest(S) == CHOOSE x \in S : \A y \in S : y <= x
smallest(S) == CHOOSE x \in S : \A y \in S : x <= y

\* C39: after the first loop of _preprocess_sounds, for every instrument
\* that has sounds, 'max' is the largest and 'min' the smallest brightness
\* of the sounds of the instrument, in whatever order they were visited.
C39_MaxMinPerInstrument ==
    preprocess_pc = "second_loop" =>
        \A instrument \in Instruments :
            brightness_of(instrument) # {} =>
                /\ instrument \in DOMAIN brightness_per_instrument
                /\ brightness_per_instrument[instrument].max
                       = largest(brightness_of(instrument))
                /\ brightness_per_instrument[instrument].min
                       = smallest(brightness_of(instrument))

====
